---- MODULE Spec2Model ----
(***************************************************************************)
(* Model of notify_rclone_vfs_uploads.py: a watchdog observer thread that  *)
(* classifies Created/Deleted events and buffers one line per finished     *)
(* upload, an asyncio coroutine that wakes at the top of each hour and     *)
(* sends the buffered lines as one Telegram message, and the main thread   *)
(* that starts both and shuts them down on KeyboardInterrupt.              *)
(*                                                                         *)
(* Strings are sequences of characters; an optional value (os.getenv, the  *)
(* result of re.match, the return value of extract_canonical_name) is a    *)
(* sequence of length 0 (None) or 1 (the value).  Time is in seconds since *)
(* a local midnight.                                                       *)
(***************************************************************************)
EXTENDS Integers, Sequences, FiniteSets, TLC

VARIABLES
    patternEnv,      \* the PATTERN_1, PATTERN_2, ... environment variables
    now,             \* datetime.now(), seconds since a local midnight
    mpc,             \* main thread: position in main()
    observerStop,    \* observer.stop() has been called
    wpc,             \* observer thread: position in the event handler
    wname,           \* on_deleted: the basename of the deleted file
    canonical_name,  \* on_deleted: result of extract_canonical_name
    wmessage,        \* on_deleted: the line "HH:MM - name" about to be appended
    message_buffer,  \* the shared list of buffered lines
    lock,            \* threading.Lock: "free" or the holder
    spc,             \* send_buffered_messages coroutine: position
    next_hour,       \* send_buffered_messages: the computed wake instant
    loopThread,      \* event_loop_thread running loop.run_forever()
    stopRequested,   \* loop.call_soon_threadsafe(loop.stop) is queued
    sent,            \* calls of bot.send_message: text and outcome
    classified,      \* history: lines of Deleted events that yielded a name
    removed,         \* history: lines removed by message_buffer.clear()
    drains,          \* history: wake-ups of the coroutine that took the lock
    events,          \* history: number of events handed to the handler
    log,             \* the lines the handler has written with logging.info
    xpc,             \* extract_canonical_name taken alone: position
    xpath,           \* extract_canonical_name taken alone: the path given
    xresult,         \* extract_canonical_name taken alone: what it returned
    xbefore          \* what it returned before a pattern was inserted

vars == <<patternEnv, now, mpc, observerStop, wpc, canonical_name,
          wmessage, message_buffer, lock, spc, next_hour, loopThread,
          stopRequested, sent, classified, removed, drains, events,
          xpc, xpath, xresult, xbefore, wname, log>>

(***************************************************************************)
(* Bounds of the model.                                                    *)
(***************************************************************************)
MaxNameLen == 2      \* longest file name, in characters
MaxSlots == 1        \* PATTERN_i variables set in the environment
MaxPatterns == 2     \* PATTERN_i variables when extraction is taken alone
MaxEvents == 2       \* events delivered by the observer in one run
MaxHours == 2        \* hour boundaries the clock passes in one run

Char == {"a", "b"}
ClockSteps == {3600}
StartTimes == {1800}

SeqsUpTo(S, n) == UNION {[1..k -> S] : k \in 0..n}
FileNames == SeqsUpTo(Char, MaxNameLen) \ {<<>>}
DirName == <<"a">>
Paths == {<<f>> : f \in FileNames} \cup {<<DirName, f>> : f \in FileNames}

\* the files the observer reports on: one name for each way a name can fare
\* with the patterns (no match, an empty capture, a capture)
EventNames == { <<"b">>, <<"a">>, <<"a", "a">>, <<"a", "b">> }
EventPaths == {<<f>> : f \in EventNames} \cup {<<DirName, f>> : f \in EventNames}

None == <<>>
Some(v) == <<v>>

(***************************************************************************)
(* Regular expressions.  A pattern is a literal prefix followed by one     *)
(* capture group holding a greedy run of the character cls, of at least    *)
(* min characters; valid = FALSE stands for a pattern that does not        *)
(* compile (an unbalanced parenthesis).                                    *)
(***************************************************************************)
Pat(prefix, cls, min, valid) ==
    [prefix |-> prefix, cls |-> cls, min |-> min, valid |-> valid]

PatternSet == { Pat(<<"a">>, "b", 0, TRUE),     \* "a" then group b, zero or more
                Pat(<<"a">>, "a", 1, TRUE),     \* "a" then group a, one or more
                Pat(<<>>, "a", 0, FALSE) }      \* malformed

\* the environment: slot i holds PATTERN_i, None when unset or empty
\* the patterns tried when extraction is taken alone
ExtractPatterns == PatternSet \cup { Pat(<<>>, "b", 1, TRUE) }   \* group b, one or more

EnvsOf(S, n) == [1..n -> {None} \cup {Some(p) : p \in S}]
PatternEnvs == EnvsOf(PatternSet, MaxSlots)

IsPrefix(s, t) == Len(s) <= Len(t) /\ SubSeq(t, 1, Len(s)) = s

\* length of the longest run of c in f starting at position i
RECURSIVE RunLen(_, _, _)
RunLen(f, i, c) ==
    IF i <= Len(f) /\ f[i] = c THEN 1 + RunLen(f, i + 1, c) ELSE 0

\* re.match(p, f) for a pattern that compiles: None, or Some(group(1))
ReMatch(p, f) ==
    IF ~IsPrefix(p.prefix, f) THEN None
    ELSE LET n == RunLen(f, Len(p.prefix) + 1, p.cls)
         IN IF n >= p.min
            THEN Some(SubSeq(f, Len(p.prefix) + 1, Len(p.prefix) + n))
            ELSE None

Basename(path) == path[Len(path)]

\* the while loop of extract_canonical_name: PATTERN_1.. up to the first unset
RECURSIVE LoadFrom(_, _)
LoadFrom(env, i) ==
    IF i > Len(env) \/ env[i] = None THEN <<>>
    ELSE <<env[i][1]>> \o LoadFrom(env, i + 1)

LoadPatterns(env) == LoadFrom(env, 1)

\* a for loop that keeps looking after a match: the last match wins
RECURSIVE MatchFromLastWins(_, _, _)
MatchFromLastWins(patterns, i, filename) ==
    IF i > Len(patterns) THEN [raised |-> FALSE, value |-> None]
    ELSE IF ~patterns[i].valid THEN [raised |-> TRUE, value |-> None]
    ELSE LET match == ReMatch(patterns[i], filename)
             rest == MatchFromLastWins(patterns, i + 1, filename)
         IN IF rest.raised \/ rest.value # None \/ match = None
            THEN rest
            ELSE [raised |-> FALSE, value |-> Some(match[1])]

\* the for loop of extract_canonical_name over patterns[i..]
RECURSIVE MatchFrom(_, _, _)
MatchFrom(patterns, i, filename) ==
    IF i > Len(patterns) THEN [raised |-> FALSE, value |-> None]
    ELSE IF ~patterns[i].valid THEN [raised |-> TRUE, value |-> None]
    ELSE LET match == ReMatch(patterns[i], filename)
         IN IF match # None
            THEN [raised |-> FALSE, value |-> Some(match[1])]
            ELSE MatchFrom(patterns, i + 1, filename)

extract_canonical_name(env, path) ==
    MatchFrom(LoadPatterns(env), 1, Basename(path))

\* `if canonical_name:` -- None and the empty string are both falsy
Truthy(opt) == opt # None /\ opt[1] # <<>>

(***************************************************************************)
(* Time and text.                                                          *)
(***************************************************************************)
SecondsPerHour == 3600
SecondsPerMinute == 60
HoursPerDay == 24

\* datetime.now().strftime("%H:%M") followed by f"{current_time} - {name}"
FormatLine(t, name) ==
    [hh |-> (t \div SecondsPerHour) % HoursPerDay,
     mm |-> (t \div SecondsPerMinute) % (SecondsPerHour \div SecondsPerMinute),
     name |-> name]

\* rounding up to the hour: an instant on the hour is its own wake instant
NextHourCeil(t) ==
    ((t + SecondsPerHour - 1) \div SecondsPerHour) * SecondsPerHour

\* (now + timedelta(hours=1)).replace(minute=0, second=0, microsecond=0)
NextHour(t) == ((t + SecondsPerHour) \div SecondsPerHour) * SecondsPerHour

\* a message text is a sequence of tokens: NL is "\n"
NL == [kind |-> "nl"]
Header == [kind |-> "header"]        \* f"*{JOB_NAME}*"
Sentence == [kind |-> "sentence"]    \* "The following backups completed successfully:"
LineTok(line) == [kind |-> "line", line |-> line]

\* a loop that ends each line with the newline instead of starting it
RECURSIVE BackupListTrailing(_)
BackupListTrailing(buf) ==
    IF buf = <<>> THEN <<>>
    ELSE <<[kind |-> "line", line |-> Head(buf)], [kind |-> "nl"]>>
            \o BackupListTrailing(Tail(buf))

\* for line in message_buffer: backup_list += f"\n{line}"
RECURSIVE BackupList(_)
BackupList(buf) ==
    IF buf = <<>> THEN <<>>
    ELSE <<NL, LineTok(Head(buf))>> \o BackupList(Tail(buf))

FullMessage(buf) == <<Header, NL, NL, Sentence, NL>> \o BackupList(buf)

(***************************************************************************)
(* Initial state: the module has been imported, main() has not run.        *)
(***************************************************************************)
InitProg ==
    /\ mpc = "main"
    /\ observerStop = FALSE
    /\ wpc = "new"
    /\ canonical_name = None
    /\ wmessage = None
    /\ message_buffer = <<>>
    /\ lock = "free"
    /\ spc = "new"
    /\ next_hour = 0
    /\ loopThread = "new"
    /\ stopRequested = FALSE
    /\ sent = <<>>
    /\ classified = <<>>
    /\ removed = <<>>
    /\ drains = 0
    /\ events = 0
    /\ wname = None
    /\ log = <<>>

InitState ==
    /\ now \in StartTimes
    /\ InitProg

NoResult == [raised |-> FALSE, value |-> None]

Init ==
    /\ InitState
    /\ patternEnv \in PatternEnvs
    /\ xpc = "off"
    /\ xpath = <<>>
    /\ xresult = NoResult
    /\ xbefore = NoResult

pureVars == <<xpc, xpath, xresult, xbefore>>
mainVars == <<mpc, observerStop, stopRequested>>
watcherVars == <<wpc, wname, canonical_name, wmessage, events, classified, log>>
schedVars == <<spc, next_hour, sent, removed, drains>>

Tick ==
    /\ \E d \in ClockSteps :
          /\ now + d < (MaxHours + 1) * SecondsPerHour
          /\ now' = now + d
    /\ UNCHANGED <<pureVars, patternEnv, mainVars, watcherVars, schedVars, message_buffer,
                   lock, loopThread>>

(***************************************************************************)
(* main()                                                                  *)
(***************************************************************************)
\* lines 114-127: construct everything, observer.start(),
\* event_loop_thread.start(), run_coroutine_threadsafe(...)
MainStart ==
    /\ mpc = "main"
    /\ mpc' = "run"
    /\ wpc' = "idle"
    /\ loopThread' = "running"
    /\ spc' = "start"
    /\ UNCHANGED <<pureVars, patternEnv, now, observerStop, stopRequested, wname,
                   canonical_name, wmessage, events, classified, log, next_hour,
                   sent, removed, drains, message_buffer, lock>>

\* lines 129-134: KeyboardInterrupt in the sleep loop, then observer.stop()
\* and loop.call_soon_threadsafe(loop.stop); neither call blocks
MainInterrupt ==
    /\ mpc = "run"
    /\ mpc' = "observer_join"
    /\ observerStop' = TRUE
    /\ stopRequested' = TRUE
    /\ UNCHANGED <<pureVars, patternEnv, now, watcherVars, schedVars, message_buffer, lock,
                   loopThread>>

\* line 135: observer.join() returns once the observer thread has ended
MainObserverJoin ==
    /\ mpc = "observer_join"
    /\ wpc \in {"stopped", "pattern_error"}
    /\ mpc' = "thread_join"
    /\ UNCHANGED <<pureVars, patternEnv, now, observerStop, stopRequested,
                   watcherVars, schedVars, message_buffer, lock, loopThread>>

\* line 136: event_loop_thread.join() returns once run_forever has returned
MainThreadJoin ==
    /\ mpc = "thread_join"
    /\ loopThread = "terminated"
    /\ mpc' = "done"
    /\ UNCHANGED <<pureVars, patternEnv, now, observerStop, stopRequested,
                   watcherVars, schedVars, message_buffer, lock, loopThread>>

(***************************************************************************)
(* TelegramBotHandler, run by the observer thread one event at a time.     *)
(***************************************************************************)
CanDispatch == wpc = "idle" /\ ~observerStop /\ events < MaxEvents

\* f"{name} has started uploading." and f"{name} has finished uploading."
Started(n) == [kind |-> "started", name |-> n]
Finished(n) == [kind |-> "finished", name |-> n]

\* a handler that does not look at event.is_directory
on_created_any(is_directory, src_path) ==
    /\ CanDispatch
    /\ events' = events + 1
    /\ log' = Append(log, [kind |-> "started", name |-> Basename(src_path)])
    /\ UNCHANGED <<pureVars, patternEnv, now, mainVars, wpc, wname, canonical_name,
                   wmessage, classified, schedVars, message_buffer, lock,
                   loopThread>>

\* lines 72-76: log "<name> has started uploading." for a file, nothing else
on_created(is_directory, src_path) ==
    /\ CanDispatch
    /\ events' = events + 1
    /\ log' = IF is_directory THEN log
              ELSE Append(log, Started(Basename(src_path)))
    /\ UNCHANGED <<pureVars, patternEnv, now, mainVars, wpc, wname, canonical_name,
                   wmessage, classified, schedVars, message_buffer, lock,
                   loopThread>>

\* a handler that logs inside `if canonical_name:` only
on_deleted_log_if_named(is_directory, src_path) ==
    /\ CanDispatch
    /\ events' = events + 1
    /\ IF is_directory
       THEN UNCHANGED <<wpc, wname, canonical_name, wmessage, classified, log>>
       ELSE LET r == extract_canonical_name(patternEnv, src_path)
            IN IF r.raised
               THEN /\ wpc' = "pattern_error"
                    /\ UNCHANGED <<wname, canonical_name, wmessage, classified,
                                   log>>
               ELSE /\ classified' =
                         IF r.value # None
                         THEN Append(classified, FormatLine(now, r.value[1]))
                         ELSE classified
                    /\ IF Truthy(r.value)
                       THEN /\ wname' = Some(Basename(src_path))
                            /\ canonical_name' = r.value
                            /\ wmessage' = Some(FormatLine(now, r.value[1]))
                            /\ wpc' = "acquire"
                       ELSE UNCHANGED <<wpc, wname, canonical_name, wmessage>>
                    /\ UNCHANGED log
    /\ UNCHANGED <<pureVars, patternEnv, now, mainVars, schedVars, message_buffer,
                   lock, loopThread>>

\* lines 78-84 and 87-88: up to the `with self.lock`, or to the end of the
\* handler when nothing is to be appended; re.error leaves the handler
on_deleted(is_directory, src_path) ==
    /\ CanDispatch
    /\ events' = events + 1
    /\ IF is_directory
       THEN UNCHANGED <<wpc, wname, canonical_name, wmessage, classified, log>>
       ELSE LET r == extract_canonical_name(patternEnv, src_path)
            IN IF r.raised
               THEN /\ wpc' = "pattern_error"
                    /\ UNCHANGED <<wname, canonical_name, wmessage, classified,
                                   log>>
               ELSE /\ classified' =
                         IF r.value # None
                         THEN Append(classified, FormatLine(now, r.value[1]))
                         ELSE classified
                    /\ IF Truthy(r.value)
                       THEN /\ wname' = Some(Basename(src_path))
                            /\ canonical_name' = r.value
                            /\ wmessage' = Some(FormatLine(now, r.value[1]))
                            /\ wpc' = "acquire"
                            /\ UNCHANGED log
                       ELSE /\ log' = Append(log, Finished(Basename(src_path)))
                            /\ UNCHANGED <<wpc, wname, canonical_name, wmessage>>
    /\ UNCHANGED <<pureVars, patternEnv, now, mainVars, schedVars, message_buffer, lock,
                   loopThread>>

\* an append that does not wait for the lock
on_deleted_no_wait ==
    /\ wpc = "acquire"
    /\ lock' = "watcher"
    /\ wpc' = "locked"
    /\ UNCHANGED <<pureVars, patternEnv, now, mainVars, wname, canonical_name,
                   wmessage, events, classified, log, schedVars, message_buffer,
                   loopThread>>

\* line 85: `with self.lock` blocks until the lock is free
on_deleted_acquire ==
    /\ wpc = "acquire"
    /\ lock = "free"
    /\ lock' = "watcher"
    /\ wpc' = "locked"
    /\ UNCHANGED <<pureVars, patternEnv, now, mainVars, wname, canonical_name,
                   wmessage, events, classified, log, schedVars, message_buffer,
                   loopThread>>

\* an append that leaves the lock held
on_deleted_append_keeps_lock ==
    /\ wpc = "locked"
    /\ message_buffer' = Append(message_buffer, wmessage[1])
    /\ wpc' = "idle"
    /\ log' = Append(log, Finished(wname[1]))
    /\ wname' = None
    /\ canonical_name' = None
    /\ wmessage' = None
    /\ UNCHANGED <<pureVars, patternEnv, now, mainVars, events, classified,
                   schedVars, lock, loopThread>>

\* lines 86-88: append, leave the with block, log "... has finished uploading."
on_deleted_append ==
    /\ wpc = "locked"
    /\ message_buffer' = Append(message_buffer, wmessage[1])
    /\ lock' = "free"
    /\ wpc' = "idle"
    /\ log' = Append(log, Finished(wname[1]))
    /\ wname' = None
    /\ canonical_name' = None
    /\ wmessage' = None
    /\ UNCHANGED <<pureVars, patternEnv, now, mainVars, events, classified, schedVars,
                   loopThread>>

\* the observer thread leaves its loop once observer.stop() has been called
ObserverExit ==
    /\ wpc = "idle"
    /\ observerStop
    /\ wpc' = "stopped"
    /\ UNCHANGED <<pureVars, patternEnv, now, mainVars, wname, canonical_name,
                   wmessage, events, classified, log, schedVars, message_buffer,
                   lock, loopThread>>

(***************************************************************************)
(* send_buffered_messages, run by the event loop thread.  The coroutine    *)
(* gives up control only at its two awaits (asyncio.sleep and              *)
(* bot.send_message).                                                      *)
(***************************************************************************)
\* lines 96-102, first iteration
SchedStart ==
    /\ spc = "start"
    /\ loopThread = "running"
    /\ next_hour' = NextHour(now)
    /\ spc' = "sleep"
    /\ UNCHANGED <<pureVars, patternEnv, now, mainVars, watcherVars, sent, removed, drains,
                   message_buffer, lock, loopThread>>

\* a wake that does not look whether the buffer holds anything
SchedWakeAlwaysSends ==
    /\ spc = "sleep"
    /\ loopThread = "running"
    /\ now >= next_hour
    /\ lock = "free"
    /\ drains' = drains + 1
    /\ sent' = Append(sent, [text |-> FullMessage(message_buffer),
                             result |-> "pending"])
    /\ lock' = "scheduler"
    /\ spc' = "send"
    /\ UNCHANGED <<pureVars, patternEnv, now, mainVars, watcherVars, next_hour,
                   removed, message_buffer, loopThread>>

\* a wake that builds and sends the message without taking the lock
SchedWakeUnlocked ==
    /\ spc = "sleep"
    /\ loopThread = "running"
    /\ now >= next_hour
    /\ drains' = drains + 1
    /\ IF message_buffer # <<>>
       THEN /\ sent' = Append(sent, [text |-> FullMessage(message_buffer),
                                     result |-> "pending"])
            /\ spc' = "send"
            /\ UNCHANGED next_hour
       ELSE /\ next_hour' = NextHour(now)
            /\ UNCHANGED <<sent, spc>>
    /\ UNCHANGED <<pureVars, patternEnv, now, mainVars, watcherVars, removed,
                   message_buffer, lock, loopThread>>

\* lines 102-110 (and 96-102 of the next iteration when the buffer is empty):
\* the sleep is over, the lock is taken, the message is built and handed to
\* bot.send_message
SchedWake ==
    /\ spc = "sleep"
    /\ loopThread = "running"
    /\ now >= next_hour
    /\ lock = "free"
    /\ drains' = drains + 1
    /\ IF message_buffer # <<>>
       THEN /\ sent' = Append(sent, [text |-> FullMessage(message_buffer),
                                     result |-> "pending"])
            /\ lock' = "scheduler"
            /\ spc' = "send"
            /\ UNCHANGED next_hour
       ELSE /\ next_hour' = NextHour(now)
            /\ UNCHANGED <<sent, lock, spc>>
    /\ UNCHANGED <<pureVars, patternEnv, now, mainVars, watcherVars, removed,
                   message_buffer, loopThread>>

SetResult(s, res) == [s EXCEPT ![Len(s)].result = res]

\* lines 110-111 and 96-102: the send returns, the buffer is cleared, the
\* lock is released, the next wake instant is computed
SendReturns ==
    /\ spc = "send"
    /\ loopThread = "running"
    /\ sent' = SetResult(sent, "ok")
    /\ removed' = removed \o message_buffer
    /\ message_buffer' = <<>>
    /\ lock' = "free"
    /\ next_hour' = NextHour(now)
    /\ spc' = "sleep"
    /\ UNCHANGED <<pureVars, patternEnv, now, mainVars, watcherVars, drains, loopThread>>

\* a coroutine that catches the error of the send and goes on with its loop
SendRaisesCaught ==
    /\ spc = "send"
    /\ loopThread = "running"
    /\ sent' = SetResult(sent, "error")
    /\ lock' = "free"
    /\ next_hour' = NextHour(now)
    /\ spc' = "sleep"
    /\ UNCHANGED <<pureVars, patternEnv, now, mainVars, watcherVars, removed,
                   drains, message_buffer, loopThread>>

\* line 110: the send raises; the with block releases the lock and the
\* exception ends the coroutine (nothing in it or around it catches)
SendRaises ==
    /\ spc = "send"
    /\ loopThread = "running"
    /\ sent' = SetResult(sent, "error")
    /\ lock' = "free"
    /\ spc' = "failed"
    /\ UNCHANGED <<pureVars, patternEnv, now, mainVars, watcherVars, next_hour, removed,
                   drains, message_buffer, loopThread>>

\* a stop the loop only notices when it next wakes for a timer (loop.stop
\* called from the main thread without waking the loop)
LoopStopAtNextTimer ==
    /\ stopRequested
    /\ loopThread = "running"
    /\ spc \in {"sleep", "send", "failed"}
    /\ spc = "sleep" => now >= next_hour
    /\ loopThread' = "terminated"
    /\ UNCHANGED <<pureVars, patternEnv, now, mainVars, watcherVars, schedVars,
                   message_buffer, lock>>

\* lines 90-92: loop.stop() runs as a callback between two steps of the
\* coroutine; run_forever returns and the thread ends, the coroutine stays
\* suspended where it is
LoopStop ==
    /\ stopRequested
    /\ loopThread = "running"
    /\ spc \in {"sleep", "send", "failed"}
    /\ loopThread' = "terminated"
    /\ UNCHANGED <<pureVars, patternEnv, now, mainVars, watcherVars, schedVars,
                   message_buffer, lock>>

Next ==
    \/ Tick
    \/ MainStart
    \/ MainInterrupt
    \/ MainObserverJoin
    \/ MainThreadJoin
    \/ \E d \in BOOLEAN, p \in EventPaths : on_created(d, p)
    \/ \E d \in BOOLEAN, p \in EventPaths : on_deleted(d, p)
    \/ on_deleted_acquire
    \/ on_deleted_append
    \/ ObserverExit
    \/ SchedStart
    \/ SchedWake
    \/ SendReturns
    \/ SendRaises
    \/ LoopStop

Spec == Init /\ [][Next]_vars

(***************************************************************************)
(* extract_canonical_name taken alone: called on a path under an           *)
(* environment, then called again after one more pattern has been put into *)
(* the environment at some position of the pattern list.                   *)
(***************************************************************************)
InitExtract ==
    /\ InitState
    /\ patternEnv \in EnvsOf(ExtractPatterns, MaxPatterns)
    /\ xpc = "ready"
    /\ xpath \in Paths
    /\ xresult = NoResult
    /\ xbefore = NoResult

InsertAt(s, i, e) == SubSeq(s, 1, i - 1) \o <<e>> \o SubSeq(s, i, Len(s))

progVars == <<now, mainVars, watcherVars, schedVars, message_buffer, lock,
              loopThread>>

ExtractCall ==
    /\ xpc = "ready"
    /\ xresult' = extract_canonical_name(patternEnv, xpath)
    /\ xpc' = "extracted"
    /\ UNCHANGED <<progVars, patternEnv, xpath, xbefore>>

\* q is a pattern that compiles and does not match the file name
ExtractAfterInsert(q, i) ==
    /\ xpc = "extracted"
    /\ q.valid
    /\ ReMatch(q, Basename(xpath)) = None
    /\ i \in 1..(Len(LoadPatterns(patternEnv)) + 1)
    /\ patternEnv' = InsertAt(patternEnv, i, Some(q))
    /\ xbefore' = xresult
    /\ xresult' = extract_canonical_name(patternEnv', xpath)
    /\ xpc' = "inserted"
    /\ UNCHANGED <<progVars, xpath>>

NextExtract ==
    \/ ExtractCall
    \/ \E q \in ExtractPatterns, i \in 1..(MaxPatterns + 1) :
          ExtractAfterInsert(q, i)

SpecExtract == InitExtract /\ [][NextExtract]_vars

(***************************************************************************)
(* The coroutine under a finer clock: datetime.now() is read at instants   *)
(* on the hour, half past and one second before the hour, in a run that    *)
(* starts in the first hour of a day or in its last hour and goes on past  *)
(* midnight.                                                               *)
(***************************************************************************)
LastHourOfDay == (HoursPerDay - 1) * SecondsPerHour
ClockOffsets == {0, SecondsPerHour \div 2, SecondsPerHour - 1}
DayStarts == {0, LastHourOfDay}

\* the hour the run started in: the runs from midnight end before the last
\* hour of the day
ClockBase(t) == IF t >= LastHourOfDay THEN LastHourOfDay ELSE 0

ClockInstants(base) ==
    { base + h * SecondsPerHour + o : h \in 0..MaxHours, o \in ClockOffsets }

InitClock ==
    /\ InitProg
    /\ now \in { b + o : b \in DayStarts, o \in ClockOffsets }
    /\ patternEnv = <<Some(Pat(<<"a">>, "b", 0, TRUE))>>
    /\ xpc = "off"
    /\ xpath = <<>>
    /\ xresult = NoResult
    /\ xbefore = NoResult

\* time passes, by any amount, between two steps of the threads
TickClock ==
    /\ \E t \in ClockInstants(ClockBase(now)) :
          /\ t > now
          /\ now' = t
    /\ UNCHANGED <<pureVars, patternEnv, mainVars, watcherVars, schedVars,
                   message_buffer, lock, loopThread>>

NextClock ==
    \/ TickClock
    \/ MainStart
    \/ \E p \in EventPaths : on_deleted(FALSE, p)
    \/ on_deleted_acquire
    \/ on_deleted_append
    \/ SchedStart
    \/ SchedWake
    \/ SendReturns

SpecClock == InitClock /\ [][NextClock]_vars

(***************************************************************************)
(* The program left to run: no KeyboardInterrupt, every send returns.      *)
(* Time goes on, a thread that can take its next step takes it in the end, *)
(* and so does a thread waiting for the lock, the lock being taken by the  *)
(* other thread only a bounded number of times.                            *)
(***************************************************************************)
NextLive ==
    \/ Tick
    \/ MainStart
    \/ \E d \in BOOLEAN, p \in EventPaths : on_created(d, p)
    \/ \E d \in BOOLEAN, p \in EventPaths : on_deleted(d, p)
    \/ on_deleted_acquire
    \/ on_deleted_append
    \/ SchedStart
    \/ SchedWake
    \/ SendReturns

Fairness ==
    /\ WF_vars(Tick)
    /\ WF_vars(MainStart)
    /\ WF_vars(on_deleted_acquire)
    /\ WF_vars(on_deleted_append)
    /\ WF_vars(SchedStart)
    /\ WF_vars(SchedWake)
    /\ WF_vars(SendReturns)

SpecLive == Init /\ [][NextLive]_vars /\ Fairness

TypeOK ==
    /\ mpc \in {"main", "run", "observer_join", "thread_join", "done"}
    /\ wpc \in {"new", "idle", "acquire", "locked", "pattern_error", "stopped"}
    /\ spc \in {"new", "start", "sleep", "send", "failed"}
    /\ lock \in {"free", "watcher", "scheduler"}
    /\ loopThread \in {"new", "running", "terminated"}

(***************************************************************************)
(* Reading a message text the way its recipient does.                      *)
(***************************************************************************)
FirstNL(text) == CHOOSE k \in 1..Len(text) :
                    text[k] = NL /\ \A j \in 1..(k - 1) : text[j] # NL

\* the lines of a text: the runs of tokens between newlines
RECURSIVE SplitLines(_)
SplitLines(text) ==
    IF \A k \in 1..Len(text) : text[k] # NL THEN <<text>>
    ELSE LET k == FirstNL(text)
         IN <<SubSeq(text, 1, k - 1)>> \o SplitLines(SubSeq(text, k + 1, Len(text)))

\* the buffered lines a text carries, in the order it carries them
RECURSIVE LinesOf(_)
LinesOf(text) ==
    IF text = <<>> THEN <<>>
    ELSE IF Head(text).kind = "line" THEN <<Head(text).line>> \o LinesOf(Tail(text))
    ELSE LinesOf(Tail(text))

SendInFlight == sent # <<>> /\ sent[Len(sent)].result = "pending"
SendFailed == \E i \in DOMAIN sent : sent[i].result = "error"

\* a step in which the call of bot.send_message in flight raises
SendFailsStep ==
    /\ SendInFlight
    /\ Len(sent') = Len(sent)
    /\ sent'[Len(sent)].result = "error"

\* a step in which the coroutine wakes from its sleep and takes the lock
WakeStep == drains' = drains + 1

\* a step that ends the drain begun by a wake that found lines
DrainEndStep == spc = "send" /\ spc' # "send"

\* some thread can take a step (the clock and new events aside)
ThreadStep ==
    \/ MainObserverJoin
    \/ MainThreadJoin
    \/ on_deleted_acquire
    \/ on_deleted_append
    \/ ObserverExit
    \/ SchedStart
    \/ SchedWake
    \/ SendReturns
    \/ SendRaises
    \/ LoopStop

(***************************************************************************)
(* Claims.                                                                 *)
(***************************************************************************)

\* C1: a send that raises a transport error does not end the Scheduler: the
\* coroutine is still in its loop (asleep until the next top of the hour, or
\* sending) in every state that follows a failed send.
C1_SchedulerSurvivesSendFailure == SendFailed => spc \in {"sleep", "send"}

\* C2: the send happens outside the buffer lock: in no state is the lock held
\* by the Scheduler while a send is in flight, so that an append never has
\* to wait for a send to return.
C2_SendOutsideLock == SendInFlight => lock # "scheduler"

\* C3: shutdown never deadlocks on the buffer lock: once main is in its two
\* joins, either the process has terminated or some thread can still take a
\* step, also when a Deleted event is waiting to append.
C3_ShutdownNeverDeadlocks ==
    mpc \in {"observer_join", "thread_join"} => ENABLED ThreadStep

\* C4: a wake that finds the buffer non-empty dispatches exactly one message
\* holding exactly the buffered lines in insertion order, and the buffer is
\* empty as soon as that drain is over.
C4_DrainSendsAllAndEmpties ==
    [][ /\ (WakeStep /\ message_buffer # <<>>) =>
              /\ Len(sent') = Len(sent) + 1
              /\ LinesOf(sent'[Len(sent')].text) = message_buffer
        /\ DrainEndStep => message_buffer' = <<>> ]_vars

\* C5: when the send raises, the buffer was cleared before the call and is
\* still empty afterwards: the lines of the failed cycle are not requeued.
C5_FailedSendLeavesBufferEmpty ==
    [][ SendFailsStep => (message_buffer = <<>> /\ message_buffer' = <<>>) ]_vars

\* the line of a Deleted event that is classified and not yet appended
Pending == IF wpc \in {"acquire", "locked"} THEN <<wmessage[1]>> ELSE <<>>

\* C6: the lines of the Deleted events that yielded a canonical name are, in
\* arrival order and with none left out, doubled or moved, the lines already
\* drained, then the buffer, then the line about to be appended.
C6_BufferIsArrivalOrder == removed \o message_buffer \o Pending = classified

\* C7: a wake that finds the buffer empty makes no call of bot.send_message,
\* raises nothing (the coroutine goes back to sleep with the lock released)
\* and leaves the buffer empty.
C7_EmptyDrainDispatchesNothing ==
    [][ (WakeStep /\ message_buffer = <<>>) =>
           /\ sent' = sent
           /\ message_buffer' = <<>>
           /\ spc' = "sleep"
           /\ lock' = "free" ]_vars

\* two wakes in a row found the buffer empty
C7_Witness == drains >= 2 /\ sent = <<>> /\ message_buffer = <<>>

Patterns == LoadPatterns(patternEnv)
AllCompile == \A i \in 1..Len(Patterns) : Patterns[i].valid
Matches(i) == ReMatch(Patterns[i], Basename(xpath)) # None

\* C8: for a list of patterns that compile, extract_canonical_name returns the
\* first capture group of the first pattern, in configured order, that
\* matches the file name, and None when no pattern matches; the result after
\* a pattern that does not match was inserted is the result before.
C8_FirstMatchWins ==
    (xpc \in {"extracted", "inserted"} /\ AllCompile) =>
        /\ ~xresult.raised
        /\ \/ \E i \in 1..Len(Patterns) :
                 /\ Matches(i)
                 /\ \A j \in 1..(i - 1) : ~Matches(j)
                 /\ xresult.value = Some(ReMatch(Patterns[i], Basename(xpath))[1])
           \/ /\ \A i \in 1..Len(Patterns) : ~Matches(i)
              /\ xresult.value = None
        /\ xpc = "inserted" => xresult = xbefore

\* a pattern was inserted in front of two patterns that both match the file
\* name with different captures, and the first of the two gave the result
C8_Witness ==
    /\ xpc = "inserted"
    /\ AllCompile
    /\ \E i, j \in 1..Len(Patterns) :
          /\ 1 < i /\ i < j
          /\ ~Matches(1) /\ Matches(i) /\ Matches(j)
          /\ ReMatch(Patterns[i], Basename(xpath))
                # ReMatch(Patterns[j], Basename(xpath))
          /\ xresult.value = Some(ReMatch(Patterns[i], Basename(xpath))[1])

\* the lines of a dispatched text after its first n lines are the buffered
\* lines, one per line and nothing else
BodyAfter(text, n) ==
    LET L == SplitLines(text)
    IN /\ Len(L) > n
       /\ \A k \in (n + 1)..Len(L) : Len(L[k]) = 1 /\ L[k][1].kind = "line"
       /\ SendInFlight /\ text = sent[Len(sent)].text =>
             [k \in 1..(Len(L) - n) |-> L[k + n][1].line] = message_buffer

\* C9 as stated: every dispatched message is the header line, one blank line,
\* the sentence, and then directly one line per buffered entry in buffer
\* order, with no other line.
C9_FormatAsStated ==
    \A i \in DOMAIN sent :
        /\ BodyAfter(sent[i].text, 3)
        /\ SubSeq(SplitLines(sent[i].text), 1, 3) = << <<Header>>, <<>>, <<Sentence>> >>

\* C9 amended: every dispatched message is the header line, one blank line,
\* the sentence, one more blank line, and then one line per buffered entry in
\* buffer order, with no other line.
C9_FormatWithBlankLine ==
    \A i \in DOMAIN sent :
        /\ BodyAfter(sent[i].text, 4)
        /\ SubSeq(SplitLines(sent[i].text), 1, 4)
              = << <<Header>>, <<>>, <<Sentence>>, <<>> >>

\* a message carrying two buffered lines is being sent
C9_Witness == SendInFlight /\ Len(message_buffer) >= 2

\* C10: a pattern that does not compile is detected at startup: with such a
\* pattern configured neither the watch nor the Scheduler ever starts, and no
\* pattern error is raised while an event is handled.
C10_MalformedPatternFatalAtStartup ==
    /\ wpc # "pattern_error"
    /\ ~AllCompile => (wpc = "new" /\ spc = "new")

\* the observer thread is inside `with self.lock`, the coroutine inside
\* `with lock`
WatcherInSection == wpc = "locked"
SchedulerInSection == spc = "send"

\* C11: at most one of the Event Classifier and the Scheduler is inside a
\* section that reads or changes the buffer, each one inside its section
\* holds the lock, and every step that changes the buffer is taken by the
\* component that holds the lock.
C11_BufferAccessUnderLock ==
    /\ [](/\ ~(WatcherInSection /\ SchedulerInSection)
          /\ WatcherInSection <=> lock = "watcher"
          /\ SchedulerInSection <=> lock = "scheduler")
    /\ [][ message_buffer' # message_buffer =>
              \/ /\ WatcherInSection
                 /\ lock = "watcher"
                 /\ message_buffer' = Append(message_buffer, wmessage[1])
              \/ /\ SchedulerInSection
                 /\ lock = "scheduler"
                 /\ message_buffer' = <<>> ]_vars

\* a Deleted event waits for the lock while the Scheduler is in its section
C11_Witness == wpc = "acquire" /\ SchedulerInSection /\ lock = "scheduler"

\* C12: a Created event, for a file or a directory, and a Deleted event for
\* a directory leave the buffer as it is and never take its lock (the
\* handler returns without entering `with self.lock`); an event for a
\* directory writes no log line either.
C12_CreatedAndDirectoryEventsFrame ==
    [][ \A d \in BOOLEAN, p \in EventPaths :
           (on_created(d, p) \/ (d /\ on_deleted(d, p))) =>
              /\ message_buffer' = message_buffer
              /\ lock' = lock /\ lock # "watcher"
              /\ wpc' = "idle"
              /\ d => log' = log ]_vars

\* a Created event for a file and an event for a directory have been handled
C12_Witness ==
    /\ events = 2
    /\ Len(log) = 1 /\ log[1].kind = "started"
    /\ wpc = "idle"
    /\ message_buffer = <<>>

NoMatch(env, path) ==
    LET P == LoadPatterns(env)
    IN /\ \A i \in 1..Len(P) : P[i].valid
       /\ \A i \in 1..Len(P) : ReMatch(P[i], Basename(path)) = None

\* C13: for a Deleted event for a file whose basename matches none of the
\* patterns (all of which compile), nothing is appended to the buffer, the
\* line "<basename> has finished uploading." is logged exactly once, and no
\* error is raised: the handler returns.
C13_NoMatchLogsOnly ==
    [][ \A p \in EventPaths :
           (on_deleted(FALSE, p) /\ NoMatch(patternEnv, p)) =>
              /\ message_buffer' = message_buffer
              /\ wpc' = "idle" /\ wmessage' = None
              /\ classified' = classified
              /\ log' = Append(log, Finished(Basename(p))) ]_vars

\* a Deleted event for a file that a configured pattern does not match has
\* been handled
C13_Witness ==
    /\ LoadPatterns(patternEnv) # <<>>
    /\ log # <<>>
    /\ log[Len(log)].kind = "finished"
    /\ NoMatch(patternEnv, <<log[Len(log)].name>>)
    /\ wpc = "idle" /\ message_buffer = <<>> /\ classified = <<>>

\* the Scheduler is suspended in asyncio.sleep and the sleep is not over
Sleeping == spc = "sleep" /\ now < next_hour

\* a step of the shutdown that needs neither the clock nor the Scheduler
ShutdownStep ==
    \/ MainObserverJoin
    \/ MainThreadJoin
    \/ on_deleted_acquire
    \/ on_deleted_append
    \/ ObserverExit
    \/ LoopStop

\* C14: after an interrupt that finds the Scheduler in its hourly sleep, the
\* event-loop thread can end at once, the sleep not being over; until main
\* is done the shutdown can go on without the clock advancing and without
\* the Scheduler taking a step; as long as the sleep is not over, and ever
\* after the loop thread has ended, there is no drain and no dispatch; and no
\* event is handed to the handler after observer.stop().
C14_InterruptDuringSleep ==
    /\ []((stopRequested /\ Sleeping /\ loopThread = "running")
             => ENABLED LoopStop)
    /\ []((stopRequested /\ Sleeping /\ mpc # "done") => ENABLED ShutdownStep)
    /\ [][ (stopRequested /\ (Sleeping \/ loopThread = "terminated")) =>
              (drains' = drains /\ sent' = sent /\ spc' = spc) ]_vars
    /\ [][ observerStop => events' = events ]_vars

\* main has returned from both joins with the Scheduler still in a sleep
\* that is not over
C14_Witness ==
    /\ mpc = "done"
    /\ Sleeping
    /\ wpc = "stopped"
    /\ loopThread = "terminated"

\* C15: a Deleted event for a file for which extract_canonical_name returns
\* a canonical name, whatever its value (the empty capture included), has
\* exactly one line "HH:MM - <canonicalName>", stamped with the time of its
\* classification, appended to the buffer under the lock: the handler goes
\* on to `with self.lock` with that line, and from there to the append.
C15_EveryNamedEventAppends ==
    [][ /\ \A p \in EventPaths :
              LET r == extract_canonical_name(patternEnv, p)
              IN (on_deleted(FALSE, p) /\ ~r.raised /\ r.value # None) =>
                    (wpc' = "acquire"
                       /\ wmessage' = Some(FormatLine(now, r.value[1])))
        /\ (wpc = "acquire" /\ wpc' # wpc) => (wpc' = "locked")
        /\ (wpc = "locked" /\ wpc' # wpc) =>
              (lock = "watcher"
                 /\ message_buffer' = Append(message_buffer, wmessage[1])) ]_vars

TopsOfHour == { k * SecondsPerHour : k \in 0..(HoursPerDay + MaxHours + 1) }

\* the first instant with zero minutes and seconds that is strictly after t
FirstHourAfter(t) ==
    CHOOSE h \in TopsOfHour :
        /\ h > t
        /\ \A g \in TopsOfHour : g > t => h <= g

\* a step that begins an iteration of the coroutine's loop: lines 96-102
IterationStartStep ==
    /\ spc' = "sleep"
    /\ spc # "sleep" \/ drains' # drains

\* C16: every iteration of the Scheduler, whatever the time it starts at (on
\* the hour and in the last hour of a day included), computes as its wake
\* instant the first top of the hour strictly after that time, so that the
\* sleep is longer than 0 and at most 3600 seconds; the coroutine wakes only
\* once that instant has come, and a send that returns after further hour
\* boundaries have passed is followed by a sleep until the next boundary
\* after its return, not by a wake for each boundary that passed.
C16_WakeAtNextTopOfHour ==
    [][ /\ IterationStartStep =>
              /\ next_hour' = FirstHourAfter(now)
              /\ next_hour' - now > 0
              /\ next_hour' - now <= SecondsPerHour
              /\ now' < next_hour'
        /\ WakeStep => now >= next_hour ]_vars

\* a run begun in the last hour of a day: the one send of the run has
\* returned half past an hour of the next day, an hour boundary after the
\* one the coroutine slept until, and the coroutine sleeps until the next
C16_Witness ==
    /\ spc = "sleep"
    /\ drains = 1
    /\ sent # <<>>
    /\ sent[Len(sent)].result = "ok"
    /\ now = (HoursPerDay + 1) * SecondsPerHour + SecondsPerHour \div 2
    /\ next_hour = (HoursPerDay + 2) * SecondsPerHour

\* a step that takes lines out of the buffer
RemovalStep == ~IsPrefix(message_buffer, message_buffer')

\* C17: a drain loses no line: whenever lines leave the buffer, a send has
\* just returned successfully and its message carried exactly the lines that
\* leave; a line classified before the send returned and not yet appended
\* is still about to be appended when the drain is over.
C17_DrainLosesNoLine ==
    [][ /\ RemovalStep =>
              /\ SendInFlight
              /\ sent' = SetResult(sent, "ok")
              /\ LinesOf(sent[Len(sent)].text) = message_buffer
              /\ message_buffer' = <<>>
        /\ (DrainEndStep /\ wpc = "acquire") =>
              /\ wpc' = "acquire"
              /\ wmessage' = wmessage ]_vars

\* the one send of the run has returned in the current hour and the buffer
\* holds a line stamped in an earlier hour: its event was classified before
\* the send returned, it was not in the message and the clear left it alone
C17_Witness ==
    /\ spc = "sleep"
    /\ drains = 1
    /\ Len(sent) = 1
    /\ sent[1].result = "ok"
    /\ removed # <<>>
    /\ message_buffer # <<>>
    /\ next_hour = NextHour(now)
    /\ message_buffer[1].hh < FormatLine(now, <<>>).hh

\* the lines of the messages handed to bot.send_message, first call first
RECURSIVE SentLines(_)
SentLines(s) ==
    IF s = <<>> THEN <<>>
    ELSE SentLines(SubSeq(s, 1, Len(s) - 1)) \o LinesOf(s[Len(s)].text)

\* C18: no appended line is handed to the messaging endpoint twice, failed
\* sends included: the lines of all the messages sent so far, one after the
\* other, are the first of the lines appended so far (those drained, then
\* those in the buffer), each appended line taken once.
C18_EachLineSentAtMostOnce ==
    IsPrefix(SentLines(sent), removed \o message_buffer)

\* a send has failed, its lines are still in the buffer, the event loop is
\* running and a later top of the hour has passed
C18_Witness ==
    /\ SendFailed
    /\ loopThread = "running"
    /\ message_buffer # <<>>
    /\ IsPrefix(LinesOf(sent[Len(sent)].text), message_buffer)
    /\ now >= next_hour + SecondsPerHour

\* the coroutine is in its loop and the instant it sleeps until, or has
\* slept until, is one the clock of the model gets to
WakeWithinRun ==
    /\ spc \in {"sleep", "send"}
    /\ next_hour <= MaxHours * SecondsPerHour

\* the k-th line appended in the run is in the buffer
Buffered(k) == Len(removed) < k /\ k <= Len(removed) + Len(message_buffer)

\* the k-th line appended in the run has gone out in a message whose send
\* has returned, and has been removed from the buffer
Dispatched(k) ==
    /\ k <= Len(removed)
    /\ k <= Len(SentLines(sent))
    /\ SentLines(sent)[k] = removed[k]
    /\ (Len(removed) = Len(SentLines(sent)) \/ SendInFlight)

\* C19: with no interrupt, every send returning and every thread taking its
\* steps, every line in the buffer is in the end carried by a message that
\* has been sent and is removed from the buffer (the lines whose wake instant
\* lies within the hours of the run); the message is that of the first wake
\* that gets the lock while the line is in the buffer.
C19_EveryLineEventuallyDispatched ==
    /\ \A k \in 1..MaxEvents : (Buffered(k) /\ WakeWithinRun) ~> Dispatched(k)
    /\ [][ (WakeStep /\ message_buffer # <<>>) =>
               /\ Len(sent') = Len(sent) + 1
               /\ LinesOf(sent'[Len(sent')].text) = message_buffer ]_vars

\* two messages have gone out: the second carries a line that was appended
\* after the first drain
C19_Witness ==
    /\ Len(sent) = 2
    /\ sent[2].result = "ok"
    /\ message_buffer = <<>>
    /\ removed = SentLines(sent)
    /\ spc = "sleep"

====
